---- MODULE Spec2Model ----
(***************************************************************************)
(* Pacman A* search: the state class, the successor generators and the     *)
(* search drivers of the two variants of the repository.                   *)
(*   extended variant: src/pacman_ai/src/{maze,pacman,search}.py           *)
(*   base variant:     src/{maze,pacman,search}.py                         *)
(* A cell is <<x, y>>; Python's None is the string "None".                 *)
(***************************************************************************)
EXTENDS Integers, Sequences, FiniteSets, TLC

VARIABLES variant,   \* "ext" or "base": which variant's classes are running
          maze,      \* the loaded Maze object (constant after construction)
          st,        \* the PacmanState being expanded by the successor walk
          point_list,     \* the point list an MST computation is given: the position, then
                     \* the food cells in the order the food set is listed in
          compared,  \* the second PacmanState value that st is compared with, in a
                     \* set that is empty until that value is constructed
          heuristic, \* the heuristic the search driver was given
          admissible,       \* whether that heuristic is admissible on this maze
          frontier,         \* PriorityQueue.heap: entries <<priority, count, item>>
          count,            \* PriorityQueue.count
          explored,         \* the explored set (state identities)
          g_values,         \* g_values / g_scores: identity -> best known cost
          states_explored,  \* states_explored / nodes_expanded
          max_frontier_size,
          pc,        \* "idle", "loop" (inside the while loop), "done" (the search
                     \* returned) or "returned" (get_successor_states returned)
          result     \* the value returned by the search or by the method called

search_vars == <<heuristic, admissible, frontier, count, explored, g_values,
                 states_explored, max_frontier_size, pc, result>>

vars == <<variant, maze, st, point_list, compared, heuristic, admissible, frontier, count, explored, g_values,
          states_explored, max_frontier_size, pc, result>>

None == "None"

(***************************************************************************)
(* Bounds of the model.                                                    *)
(***************************************************************************)
\* longest action list the successor walk builds
MaxActions == 6
\* most food cells a layout is given
MaxFood == 2
\* largest cost the brute-force enumeration of action sequences goes to
MaxWalkCost == 13
\* longest action list of a state that is compared with another state
MaxEqActions == 2
\* most food cells an MST computation is given, and the side of the square
\* grid its points are taken from
MaxMstFood == 3
MstSide == 3
\* the most cells, and the longest side, of a grid whose Maze methods are
\* called on their own
MaxGridCells == 6
MaxSide == 3
\* most pushes on a priority queue used on its own, and the largest priority
MaxPushes == 4
MaxPriority == 2
\* stands for float('inf')
Inf == 999

Max(S) == CHOOSE v \in S : \A w \in S : w <= v
Min(S) == CHOOSE v \in S : \A w \in S : v <= w
Abs(n) == IF n < 0 THEN -n ELSE n

\* list.index(v): position of the first occurrence, 0-based as in Python
index(seq, v) == (CHOOSE i \in 1..Len(seq) : seq[i] = v /\ \A j \in 1..(i-1) : seq[j] # v) - 1

(***************************************************************************)
(* Extended variant: Maze (src/pacman_ai/src/maze.py)                      *)
(***************************************************************************)
is_wall(m, x, y, moving_walls_active) ==
    IF ~(0 <= x /\ x < m.width /\ 0 <= y /\ y < m.height) THEN TRUE
    ELSE IF <<x, y>> \in m.walls THEN TRUE
    ELSE IF moving_walls_active /\ <<x, y>> \in m.moving_walls THEN TRUE
    ELSE FALSE

check_teleport_pad(m, x, y) ==
    IF <<x, y>> \in DOMAIN m.teleport_pads THEN m.teleport_pads[<<x, y>>] ELSE None

\* the list cached in Maze._corner_positions on the first is_corner call
corner_positions(m) ==
    LET non_wall_positions == {p \in (0..(m.width - 1)) \X (0..(m.height - 1)) :
                                  ~is_wall(m, p[1], p[2], TRUE)}
    IN  IF non_wall_positions = {} THEN <<>>
        ELSE LET min_x == Min({p[1] : p \in non_wall_positions})
                 max_x == Max({p[1] : p \in non_wall_positions})
                 min_y == Min({p[2] : p \in non_wall_positions})
                 max_y == Max({p[2] : p \in non_wall_positions})
             IN  << <<min_x, min_y>>, <<min_x, max_y>>,
                    <<max_x, min_y>>, <<max_x, max_y>> >>

is_corner(m, x, y) ==
    IF is_wall(m, x, y, TRUE) THEN FALSE
    ELSE \E i \in 1..Len(m.corner_positions) : m.corner_positions[i] = <<x, y>>

get_opposite_corner(m, x, y) ==
    IF ~is_corner(m, x, y) THEN None
    ELSE m.corner_positions[(3 - index(m.corner_positions, <<x, y>>)) + 1]

directions == << <<"North", <<0, -1>> >>, <<"East", <<1, 0>> >>,
                 <<"South", <<0, 1>> >>, <<"West", <<-1, 0>> >> >>

\* a move list that lets vanished walls open the edge of the grid as well
get_valid_moves_unbounded(m, x, y, walls_vanished, moving_walls_active) ==
    LET cand == [i \in 1..4 |-> <<directions[i][1],
                                  <<x + directions[i][2][1], y + directions[i][2][2]>> >>]
        ok(c) == walls_vanished \/ ~is_wall(m, c[2][1], c[2][2], moving_walls_active)
    IN  Append(SelectSeq(cand, ok), <<"Stop", <<x, y>> >>)

get_valid_moves(m, x, y, walls_vanished, moving_walls_active) ==
    LET cand == [i \in 1..4 |-> <<directions[i][1],
                                  <<x + directions[i][2][1], y + directions[i][2][2]>> >>]
        ok(c) == /\ 0 <= c[2][1] /\ c[2][1] < m.width
                 /\ 0 <= c[2][2] /\ c[2][2] < m.height
                 /\ (walls_vanished \/ ~is_wall(m, c[2][1], c[2][2], moving_walls_active))
    IN  Append(SelectSeq(cand, ok), <<"Stop", <<x, y>> >>)

(***************************************************************************)
(* Extended variant: PacmanState (src/pacman_ai/src/pacman.py)             *)
(***************************************************************************)
PacmanState(position, remaining_food, remaining_magical_pies) ==
    [position |-> position,
     remaining_food |-> remaining_food,
     remaining_magical_pies |-> remaining_magical_pies,
     walls_vanished_steps |-> 0,
     actions |-> <<>>,
     cost |-> 0,
     ghost_positions |-> <<>>,
     game_over |-> FALSE,
     remaining_fruits |-> {},
     remaining_slow_pills |-> {},
     remaining_speed_boosts |-> {},
     ghost_scared_steps |-> 0,
     slow_motion_steps |-> 0,
     speed_boost_steps |-> 0,
     moving_walls_active |-> TRUE]

is_goal(s) == s.remaining_food = {} /\ ~s.game_over

are_ghosts_scared(s) == s.ghost_scared_steps > 0
is_slow_motion_active(s) == s.slow_motion_steps > 0
are_walls_vanished(s) == s.walls_vanished_steps > 0

\* every new list the for loop of move_ghosts can build, over random.choice
moved_ghosts(s, m) ==
    LET n == Len(s.ghost_positions)
        valid_moves(g) == {<<g[1] + d[1], g[2] + d[2]>> :
                              d \in {dd \in {<<0, -1>>, <<1, 0>>, <<0, 1>>, <<-1, 0>>} :
                                        ~is_wall(m, g[1] + dd[1], g[2] + dd[2], s.moving_walls_active)}}
        dist(p) == Abs(p[1] - s.position[1]) + Abs(p[2] - s.position[2])
        choices(g) ==
            IF valid_moves(g) = {} THEN {g}
            ELSE IF are_ghosts_scared(s)
                 THEN {p \in valid_moves(g) : \A q \in valid_moves(g) : dist(q) <= dist(p)}
                 ELSE valid_moves(g)
    IN  {gs \in [1..n -> UNION {choices(s.ghost_positions[i]) : i \in 1..n}] :
            \A i \in 1..n : gs[i] \in choices(s.ghost_positions[i])}

\* every list random.random / random.choice can make move_ghosts return
move_ghosts(s, m) ==
    IF is_slow_motion_active(s) THEN moved_ghosts(s, m) \cup {s.ghost_positions}
    ELSE moved_ghosts(s, m)

\* the two "continue" tests at the head of the loop of get_successor_states
generated(s, m, mv) ==
    LET new_vanish_steps == Max({0, s.walls_vanished_steps - 1})
        wall == is_wall(m, mv[2][1], mv[2][2], s.moving_walls_active)
    IN  /\ ~(wall /\ ~are_walls_vanished(s))
        /\ ~(wall /\ new_vanish_steps = 0)

\* cost of one action (pacman.py 205)
step_cost_flat(action) == 1

step_cost(action) == IF action = "Stop" THEN 0 ELSE 1

\* a timer after one action: max(0, t - 1), or unchanged on Stop (176-179, 203, 210-212)
countdown_on_stop(steps, action) == Max({0, steps - 1})

countdown(steps, action) == IF action = "Stop" THEN steps ELSE Max({0, steps - 1})

\* the PacmanState(...) constructor call of the loop body
construct(s, action, new_x, new_y, new_ghost_positions) ==
    [position |-> <<new_x, new_y>>,
     remaining_food |-> s.remaining_food,
     remaining_magical_pies |-> s.remaining_magical_pies,
     walls_vanished_steps |-> countdown(s.walls_vanished_steps, action),
     actions |-> Append(s.actions, action),
     cost |-> s.cost + step_cost(action),
     ghost_positions |-> new_ghost_positions,
     game_over |-> FALSE,
     remaining_fruits |-> s.remaining_fruits,
     remaining_slow_pills |-> s.remaining_slow_pills,
     remaining_speed_boosts |-> s.remaining_speed_boosts,
     ghost_scared_steps |-> countdown(s.ghost_scared_steps, action),
     slow_motion_steps |-> countdown(s.slow_motion_steps, action),
     speed_boost_steps |-> countdown(s.speed_boost_steps, action),
     moving_walls_active |-> s.moving_walls_active]

\* a teleport step that knows the pads only
teleport_pads_only(n, m, new_x, new_y) ==
    IF check_teleport_pad(m, new_x, new_y) # None
    THEN [n EXCEPT !.position = check_teleport_pad(m, new_x, new_y)]
    ELSE n

\* corner teleportation, then teleport pads
teleport(n, m, new_x, new_y) ==
    LET n1 == IF is_corner(m, new_x, new_y) /\ get_opposite_corner(m, new_x, new_y) # None
              THEN [n EXCEPT !.position = get_opposite_corner(m, new_x, new_y)]
              ELSE n
    IN  IF check_teleport_pad(m, new_x, new_y) # None
        THEN [n1 EXCEPT !.position = check_teleport_pad(m, new_x, new_y)]
        ELSE n1

\* food at the new position
collect_food_column(n) == [n EXCEPT !.remaining_food = {f \in @ : f[1] # n.position[1]}]

collect_food(n) == [n EXCEPT !.remaining_food = @ \ {n.position}]

\* magical pie at the new position
collect_pie(n) ==
    IF n.position \in n.remaining_magical_pies
    THEN [n EXCEPT !.remaining_magical_pies = @ \ {n.position},
                   !.walls_vanished_steps = 5,
                   !.ghost_scared_steps = 15]
    ELSE n

\* fruit, slow pill and speed boost at the new position
collect_powerups(n) ==
    LET n1 == [n EXCEPT !.remaining_fruits = @ \ {n.position}]
        n2 == IF n1.position \in n1.remaining_slow_pills
              THEN [n1 EXCEPT !.remaining_slow_pills = @ \ {n1.position},
                              !.slow_motion_steps = 15]
              ELSE n1
    IN  IF n2.position \in n2.remaining_speed_boosts
        THEN [n2 EXCEPT !.remaining_speed_boosts = @ \ {n2.position},
                        !.speed_boost_steps = 10]
        ELSE n2

\* a collision that removes the first eaten ghost only
ghost_collision_first(n) ==
    LET first == CHOOSE i \in 1..Len(n.ghost_positions) :
                    /\ n.ghost_positions[i] = n.position
                    /\ \A j \in 1..(i - 1) : n.ghost_positions[j] # n.position
    IN  IF ~(\E i \in 1..Len(n.ghost_positions) : n.ghost_positions[i] = n.position) THEN n
        ELSE IF are_ghosts_scared(n)
             THEN [n EXCEPT !.ghost_positions =
                      [j \in 1..(Len(@) - 1) |-> IF j < first THEN @[j] ELSE @[j + 1]]]
             ELSE [n EXCEPT !.game_over = TRUE]

\* check_ghost_collision and the removal of eaten ghosts / game over
ghost_collision(n) ==
    IF ~(\E i \in 1..Len(n.ghost_positions) : n.ghost_positions[i] = n.position) THEN n
    ELSE IF are_ghosts_scared(n)
         THEN [n EXCEPT !.ghost_positions = SelectSeq(@, LAMBDA g : g # n.position)]
         ELSE [n EXCEPT !.game_over = TRUE]

\* "toggle moving walls occasionally (every 10 steps)", on the parent's cost
toggle_walls(n, s, action) ==
    IF s.cost > 0 /\ s.cost % 10 = 0 /\ action # "Stop"
    THEN [n EXCEPT !.moving_walls_active = ~@]
    ELSE n

\* the successor built by one iteration of the loop, for the move mv and the
\* ghost list new_ghost_positions
new_state(s, m, mv, new_ghost_positions) ==
    toggle_walls(
        ghost_collision(
            collect_powerups(
                collect_pie(
                    collect_food(
                        teleport(construct(s, mv[1], mv[2][1], mv[2][2], new_ghost_positions),
                                 m, mv[2][1], mv[2][2]))))),
        s, mv[1])

\* the moves of get_valid_moves that survive the two "continue" tests, in order
surviving_moves(s, m) ==
    LET keep(mv) == generated(s, m, mv)
    IN  IF s.game_over THEN <<>>
        ELSE SelectSeq(get_valid_moves(m, s.position[1], s.position[2],
                                       are_walls_vanished(s), s.moving_walls_active), keep)

\* every successor get_successor_states can return, over the ghosts' random moves
get_successor_states(s, m) ==
    LET mvs == surviving_moves(s, m)
    IN  UNION {{new_state(s, m, mvs[i], gh) :
                   gh \in IF mvs[i][1] = "Stop" THEN {s.ghost_positions} ELSE move_ghosts(s, m)} :
               i \in 1..Len(mvs)}

(***************************************************************************)
(* Base variant: Maze (src/maze.py)                                        *)
(***************************************************************************)
base_is_wall(m, x, y) ==
    IF ~(0 <= x /\ x < m.width /\ 0 <= y /\ y < m.height) THEN TRUE
    ELSE <<x, y>> \in m.walls

identify_corners(m) ==
    LET potential_corners == << <<0, 0>>, <<m.width - 1, 0>>,
                                <<0, m.height - 1>>, <<m.width - 1, m.height - 1>> >>
        open(c) == ~base_is_wall(m, c[1], c[2])
    IN  SelectSeq(potential_corners, open)

get_teleport_destination(m, x, y) ==
    IF Len(m.corners) < 2 THEN None
    ELSE IF \E i \in 1..Len(m.corners) : m.corners[i] = <<x, y>>
         THEN m.corners[((index(m.corners, <<x, y>>) + 2) % Len(m.corners)) + 1]
         ELSE None

moves == << <<0, -1, "North">>, <<1, 0, "East">>, <<0, 1, "South">>,
            <<-1, 0, "West">>, <<0, 0, "Stop">> >>

get_legal_moves(m, x, y, can_pass_walls) ==
    LET legal(mv) == \/ (mv[1] = 0 /\ mv[2] = 0)
                     \/ ~base_is_wall(m, x + mv[1], y + mv[2])
                     \/ can_pass_walls
    IN  SelectSeq(moves, legal)

(***************************************************************************)
(* Base variant: PacmanState and PacmanSearchProblem (src/pacman.py)       *)
(***************************************************************************)
BasePacmanState(position, remaining_food, remaining_pies) ==
    [position |-> position,
     remaining_food |-> remaining_food,
     remaining_pies |-> remaining_pies,
     wall_pass_steps |-> 0,
     path |-> <<>>,
     path_cost |-> 0]

is_goal_state(s) == Cardinality(s.remaining_food) = 0

\* the new_state one iteration of the loop of get_successors builds
base_new_state(state, m, mv) ==
    LET moved_x == state.position[1] + mv[1]
        moved_y == state.position[2] + mv[2]
        teleport_dest == get_teleport_destination(m, moved_x, moved_y)
        new_pos == IF teleport_dest # None THEN teleport_dest ELSE <<moved_x, moved_y>>
        n1 == [state EXCEPT !.position = new_pos,
                            !.wall_pass_steps = IF @ > 0 THEN @ - 1 ELSE @]
        n2 == [n1 EXCEPT !.remaining_food = @ \ {new_pos}]
        n3 == IF new_pos \in n2.remaining_pies
              THEN [n2 EXCEPT !.remaining_pies = @ \ {new_pos}, !.wall_pass_steps = 5]
              ELSE n2
    IN  [n3 EXCEPT !.path = Append(@, mv[3]), !.path_cost = @ + 1]

\* the list of (next_state, action, cost) tuples
get_successors(state, m) ==
    LET legal_moves == get_legal_moves(m, state.position[1], state.position[2],
                                       state.wall_pass_steps > 0)
    IN  [i \in 1..Len(legal_moves) |->
            <<base_new_state(state, m, legal_moves[i]), legal_moves[i][3], 1>>]

get_cost_of_actions(actions) == Len(actions)

(***************************************************************************)
(* Layouts: the grids the mazes are loaded from.  A layout fixes the size, *)
(* the '%' cells, the 'M' cells, the 'T' pairs and the 'O' cells; 'P' and  *)
(* the '.' cells are placed on the remaining cells in every possible way.  *)
(* The base variant reads 'M' and 'T' as open cells.                       *)
(***************************************************************************)
Cells(L) == (0..(L.width - 1)) \X (0..(L.height - 1))

Border(w, h) == {c \in (0..(w - 1)) \X (0..(h - 1)) :
                    c[1] = 0 \/ c[2] = 0 \/ c[1] = w - 1 \/ c[2] = h - 1}

\* an open room bordered by walls
Room(w, h) ==
    [width |-> w, height |-> h, walls |-> Border(w, h), moving_walls |-> {},
     teleport_pads |-> <<>>, pies |-> {}]

Layouts ==
    { \* 3x2, bottom-right cell a wall: a corner whose opposite corner is a wall
      [width |-> 3, height |-> 2, walls |-> {<<2, 1>>}, moving_walls |-> {},
       teleport_pads |-> <<>>, pies |-> {}],
      \* 5x2, an inner wall between the two right-hand cells of the bottom row
      [width |-> 5, height |-> 2, walls |-> {<<0, 0>>, <<0, 1>>, <<3, 1>>},
       moving_walls |-> {}, teleport_pads |-> <<>>, pies |-> {}],
      \* 4x3, wall corners, one pie next to an inner wall
      [width |-> 4, height |-> 3,
       walls |-> {<<0, 0>>, <<3, 0>>, <<0, 2>>, <<3, 2>>, <<2, 1>>},
       moving_walls |-> {}, teleport_pads |-> <<>>, pies |-> {<<1, 1>>}],
      \* 4x2 with a moving wall
      [width |-> 4, height |-> 2, walls |-> {<<0, 0>>, <<3, 1>>},
       moving_walls |-> {<<2, 0>>}, teleport_pads |-> <<>>, pies |-> {}],
      \* 4x2 with a pair of teleport pads and a pie
      [width |-> 4, height |-> 2, walls |-> {<<1, 0>>, <<3, 0>>, <<0, 1>>},
       moving_walls |-> {},
       teleport_pads |-> (<<0, 0>> :> <<3, 1>>) @@ (<<3, 1>> :> <<0, 0>>),
       pies |-> {<<2, 0>>}],
      \* 3x4 cross with wall corners; the bottom cell lies behind a moving wall
      [width |-> 3, height |-> 4,
       walls |-> {<<0, 0>>, <<2, 0>>, <<0, 2>>, <<2, 2>>, <<0, 3>>, <<2, 3>>},
       moving_walls |-> {<<1, 2>>}, teleport_pads |-> <<>>, pies |-> {}],
      \* 3x4 cross with wall corners; the bottom cell lies behind a solid wall
      [width |-> 3, height |-> 4,
       walls |-> {<<0, 0>>, <<2, 0>>, <<0, 2>>, <<2, 2>>, <<0, 3>>, <<2, 3>>, <<1, 2>>},
       moving_walls |-> {}, teleport_pads |-> <<>>, pies |-> {}],
      \* 5x5: a 3x3 open room bordered by walls
      Room(5, 5) }

\* cells that can hold 'P' or '.'
FreeCells(L) == Cells(L) \ (L.walls \cup L.moving_walls \cup L.pies \cup DOMAIN L.teleport_pads)

\* the food of a layout file: no '.' at all, or up to MaxFood of them
FoodChoices(L, start) ==
    {F \in SUBSET (FreeCells(L) \ {start}) : Cardinality(F) <= MaxFood}

\* the attributes of the extended Maze after load_maze
ExtMaze(L, start, food) ==
    LET m0 == [width |-> L.width, height |-> L.height, walls |-> L.walls,
               moving_walls |-> L.moving_walls, teleport_pads |-> L.teleport_pads,
               pacman_start |-> start, food_points |-> food, magical_pies |-> L.pies,
               corner_positions |-> <<>>]
    IN  [m0 EXCEPT !.corner_positions = corner_positions(m0)]

\* the attributes of the base Maze after parse_layout and identify_corners
BaseMaze(L, start, food) ==
    LET m0 == [width |-> L.width, height |-> L.height, walls |-> L.walls,
               pacman_start |-> start, food_positions |-> food,
               magical_pie_positions |-> L.pies, corners |-> <<>>]
    IN  [m0 EXCEPT !.corners = identify_corners(m0)]

\* a_star_search builds the initial state from the maze (search.py 80-84)
ExtInitialState(m) == PacmanState(m.pacman_start, m.food_points, m.magical_pies)

\* PacmanSearchProblem.__init__ builds the initial state (pacman.py 96-101)
BaseInitialState(m) ==
    BasePacmanState(m.pacman_start, m.food_positions, m.magical_pie_positions)

(***************************************************************************)
(* The successor walk: from the initial state, repeatedly replace the      *)
(* state by one of its successors.                                         *)
(***************************************************************************)
SearchIdleButResult ==
    /\ heuristic = None /\ admissible = FALSE
    /\ frontier = {} /\ count = 0 /\ explored = {} /\ g_values = <<>>
    /\ states_explored = 0 /\ max_frontier_size = 0
    /\ pc = "idle"

SearchIdle == SearchIdleButResult /\ result = None

Init ==
    /\ SearchIdle
    /\ compared = {} /\ point_list = <<>>
    /\ \E L \in Layouts : \E start \in FreeCells(L) : \E food \in FoodChoices(L, start) :
         \/ /\ variant = "ext"
            /\ maze = ExtMaze(L, start, food)
            /\ st = ExtInitialState(ExtMaze(L, start, food))
         \/ /\ variant = "base"
            /\ maze = BaseMaze(L, start, food)
            /\ st = BaseInitialState(BaseMaze(L, start, food))

ExtStep ==
    /\ variant = "ext"
    /\ Len(st.actions) < MaxActions
    /\ \E t \in get_successor_states(st, maze) : st' = t
    /\ UNCHANGED <<point_list, variant, maze, compared>>
    /\ UNCHANGED search_vars

BaseStep ==
    /\ variant = "base"
    /\ Len(st.path) < MaxActions
    /\ \E i \in 1..Len(get_successors(st, maze)) : st' = get_successors(st, maze)[i][1]
    /\ UNCHANGED <<point_list, variant, maze, compared>>
    /\ UNCHANGED search_vars

Next == ExtStep \/ BaseStep

Spec == Init /\ [][Next]_vars

(***************************************************************************)
(* State identity: __eq__ and __hash__.                                    *)
(***************************************************************************)
\* an __eq__ that compares the accumulated cost as well
state_eq_with_cost(self, other) ==
    /\ self.position = other.position
    /\ self.remaining_food = other.remaining_food
    /\ self.remaining_magical_pies = other.remaining_magical_pies
    /\ self.walls_vanished_steps = other.walls_vanished_steps
    /\ self.ghost_positions = other.ghost_positions
    /\ self.game_over = other.game_over
    /\ self.remaining_fruits = other.remaining_fruits
    /\ self.remaining_slow_pills = other.remaining_slow_pills
    /\ self.remaining_speed_boosts = other.remaining_speed_boosts
    /\ self.ghost_scared_steps = other.ghost_scared_steps
    /\ self.slow_motion_steps = other.slow_motion_steps
    /\ self.speed_boost_steps = other.speed_boost_steps
    /\ self.moving_walls_active = other.moving_walls_active
    /\ self.cost = other.cost

\* extended PacmanState.__eq__ (pacman.py 32-47)
state_eq(self, other) ==
    /\ self.position = other.position
    /\ self.remaining_food = other.remaining_food
    /\ self.remaining_magical_pies = other.remaining_magical_pies
    /\ self.walls_vanished_steps = other.walls_vanished_steps
    /\ self.ghost_positions = other.ghost_positions
    /\ self.game_over = other.game_over
    /\ self.remaining_fruits = other.remaining_fruits
    /\ self.remaining_slow_pills = other.remaining_slow_pills
    /\ self.remaining_speed_boosts = other.remaining_speed_boosts
    /\ self.ghost_scared_steps = other.ghost_scared_steps
    /\ self.slow_motion_steps = other.slow_motion_steps
    /\ self.speed_boost_steps = other.speed_boost_steps
    /\ self.moving_walls_active = other.moving_walls_active

\* the tuple extended PacmanState.__hash__ hashes (pacman.py 49-57)
state_hash(self) ==
    <<self.position, self.remaining_food, self.remaining_magical_pies,
      self.walls_vanished_steps, self.ghost_positions, self.game_over,
      self.remaining_fruits, self.remaining_slow_pills, self.remaining_speed_boosts,
      self.ghost_scared_steps, self.slow_motion_steps, self.speed_boost_steps,
      self.moving_walls_active>>

\* base PacmanState.__eq__ (src/pacman.py 32-42)
base_state_eq(self, other) ==
    /\ self.position = other.position
    /\ self.remaining_food = other.remaining_food
    /\ self.remaining_pies = other.remaining_pies
    /\ self.wall_pass_steps = other.wall_pass_steps

\* the tuple base PacmanState.__hash__ hashes (src/pacman.py 44-52)
base_state_hash(self) ==
    <<self.position, self.remaining_food, self.remaining_pies, self.wall_pass_steps>>

(***************************************************************************)
(* Comparing two states.  st is a state at most MaxEqActions actions from  *)
(* the initial state; the second operand is the initial state, a successor *)
(* of st, or a PacmanState constructed like st with one attribute given    *)
(* another value.                                                          *)
(***************************************************************************)
ExtOperands(s, m) ==
    {s, ExtInitialState(m)} \cup get_successor_states(s, m)
    \cup {[s EXCEPT !.position = p] : p \in Cells(m)}
    \cup {[s EXCEPT !.remaining_food = F] : F \in SUBSET m.food_points}
    \cup {[s EXCEPT !.remaining_magical_pies = P] : P \in SUBSET m.magical_pies}
    \cup {[s EXCEPT !.walls_vanished_steps = n] : n \in 0..5}
    \cup {[s EXCEPT !.ghost_positions = g] : g \in {<<>>, <<m.pacman_start>>}}
    \cup {[s EXCEPT !.game_over = b] : b \in BOOLEAN}
    \cup {[s EXCEPT !.remaining_fruits = F] : F \in SUBSET {m.pacman_start}}
    \cup {[s EXCEPT !.remaining_slow_pills = F] : F \in SUBSET {m.pacman_start}}
    \cup {[s EXCEPT !.remaining_speed_boosts = F] : F \in SUBSET {m.pacman_start}}
    \cup {[s EXCEPT !.ghost_scared_steps = n] : n \in 0..1}
    \cup {[s EXCEPT !.slow_motion_steps = n] : n \in 0..1}
    \cup {[s EXCEPT !.speed_boost_steps = n] : n \in 0..1}
    \cup {[s EXCEPT !.moving_walls_active = b] : b \in BOOLEAN}
    \cup {[s EXCEPT !.cost = c] : c \in 0..MaxEqActions}
    \cup {[s EXCEPT !.actions = a] : a \in {<<>>, <<"Stop">>, <<"East", "West">>}}

BaseOperands(s, m) ==
    {s, BaseInitialState(m)}
    \cup {get_successors(s, m)[i][1] : i \in 1..Len(get_successors(s, m))}
    \cup {[s EXCEPT !.position = p] : p \in Cells(m)}
    \cup {[s EXCEPT !.remaining_food = F] : F \in SUBSET m.food_positions}
    \cup {[s EXCEPT !.remaining_pies = P] : P \in SUBSET m.magical_pie_positions}
    \cup {[s EXCEPT !.wall_pass_steps = n] : n \in 0..5}
    \cup {[s EXCEPT !.path_cost = c] : c \in 0..MaxEqActions}
    \cup {[s EXCEPT !.path = a] : a \in {<<>>, <<"Stop">>, <<"East", "West">>}}

EqWalk ==
    /\ compared = {}
    /\ Len(IF variant = "ext" THEN st.actions ELSE st.path) < MaxEqActions
    /\ (ExtStep \/ BaseStep)

EqExt ==
    /\ variant = "ext" /\ compared = {}
    /\ \E o \in ExtOperands(st, maze) : compared' = {o}
    /\ UNCHANGED <<point_list, variant, maze, st>>
    /\ UNCHANGED search_vars

EqBase ==
    /\ variant = "base" /\ compared = {}
    /\ \E o \in BaseOperands(st, maze) : compared' = {o}
    /\ UNCHANGED <<point_list, variant, maze, st>>
    /\ UNCHANGED search_vars

NextEq == EqWalk \/ EqExt \/ EqBase

SpecEq == Init /\ [][NextEq]_vars


(***************************************************************************)
(* Heuristics.  A Python set is listed in some order; list_of fixes it to  *)
(* the order by (x, y).                                                    *)
(***************************************************************************)
cell_before(a, b) == a[1] < b[1] \/ (a[1] = b[1] /\ a[2] < b[2])

list_of(S) ==
    LET n == Cardinality(S)
    IN  [i \in 1..n |-> CHOOSE c \in S : Cardinality({d \in S : cell_before(d, c)}) = i - 1]

manhattan_distance(pos1, pos2) == Abs(pos1[1] - pos2[1]) + Abs(pos1[2] - pos2[2])

\* mst_heuristic on the list all_points = [position] + list(food_points):
\* Prim's algorithm from node 0, the first strictly smaller edge wins
\* a Prim that grows the tree from the node added last only (a chain)
mst_of_list_chain(all_points) ==
    LET n == Len(all_points)
        distances(i, j) == manhattan_distance(all_points[i], all_points[j])
        RECURSIVE prim(_, _, _)
        prim(visited, last, mst_cost) ==
            IF ~(Cardinality(visited) < n) THEN mst_cost
            ELSE LET edges == {e \in {last} \X ((1..n) \ visited) : TRUE}
                     min_edge == Min({distances(e[1], e[2]) : e \in edges})
                     first == CHOOSE e \in edges :
                                 /\ distances(e[1], e[2]) = min_edge
                                 /\ \A f \in edges : distances(f[1], f[2]) = min_edge =>
                                        e[2] <= f[2]
                 IN  prim(visited \cup {first[2]}, first[2], mst_cost + min_edge)
    IN  IF n = 1 THEN 0 ELSE prim({1}, 1, 0)

mst_of_list(all_points) ==
    LET n == Len(all_points)
        distances(i, j) == manhattan_distance(all_points[i], all_points[j])
        RECURSIVE prim(_, _)
        prim(visited, mst_cost) ==
            IF ~(Cardinality(visited) < n) THEN mst_cost
            ELSE LET edges == {e \in visited \X ((1..n) \ visited) : TRUE}
                     min_edge == Min({distances(e[1], e[2]) : e \in edges})
                     first == CHOOSE e \in edges :
                                 /\ distances(e[1], e[2]) = min_edge
                                 /\ \A f \in edges : distances(f[1], f[2]) = min_edge =>
                                        (e[1] < f[1] \/ (e[1] = f[1] /\ e[2] <= f[2]))
                 IN  prim(visited \cup {first[2]}, mst_cost + min_edge)
    IN  IF n = 1 THEN 0 ELSE prim({1}, 0)

mst_heuristic(position, food_points) ==
    IF food_points = {} THEN 0
    ELSE mst_of_list(<<position>> \o list_of(food_points))

\* a caller-supplied heuristic_func that always returns 0
zero_heuristic(position, food_points) == 0

heuristic_func(name, position, food_points) ==
    IF name = "mst" THEN mst_heuristic(position, food_points)
    ELSE zero_heuristic(position, food_points)

\* base variant (src/search.py)
NullHeuristic_compute(state) == 0

NearestFoodHeuristic_compute(state) ==
    IF state.remaining_food = {} THEN 0
    ELSE Min({Abs(state.position[1] - food[1]) + Abs(state.position[2] - food[2]) :
                 food \in state.remaining_food})

\* Prim's algorithm on nodes = list(remaining_food) + [position], from the last node
MSTHeuristic_of_list(nodes) ==
    LET n == Len(nodes)
        dist(u, v) == Abs(nodes[u][1] - nodes[v][1]) + Abs(nodes[u][2] - nodes[v][2])
        RECURSIVE prim(_, _)
        prim(visited, mst_weight) ==
            IF ~(Cardinality(visited) - 1 < n - 1) THEN mst_weight
            ELSE LET edges == {e \in visited \X ((1..n) \ visited) : TRUE}
                     min_dist == Min({dist(e[1], e[2]) : e \in edges})
                     first == CHOOSE e \in edges :
                                 /\ dist(e[1], e[2]) = min_dist
                                 /\ \A f \in edges : dist(f[1], f[2]) = min_dist =>
                                        (e[1] < f[1] \/ (e[1] = f[1] /\ e[2] <= f[2]))
                 IN  prim(visited \cup {first[2]}, mst_weight + min_dist)
    IN  prim({n}, 0)

MSTHeuristic_compute(state) ==
    IF state.remaining_food = {} THEN 0
    ELSE MSTHeuristic_of_list(Append(list_of(state.remaining_food), state.position))

base_heuristic(name, state) ==
    IF name = "mst" THEN MSTHeuristic_compute(state)
    ELSE IF name = "nearest" THEN NearestFoodHeuristic_compute(state)
    ELSE NullHeuristic_compute(state)

(***************************************************************************)
(* The MST heuristics as functions: point_list grows by one food cell at a *)
(* time, in every order, and result holds the values the two variants      *)
(* compute for it (the extended one lists the position first, the base one *)
(* last).                                                                  *)
(***************************************************************************)
MstCells == (0..(MstSide - 1)) \X (0..(MstSide - 1))

food_of(points) == {points[i] : i \in 2..Len(points)}

\* mst_heuristic with list(food_points) in the order of points
mst_heuristic_in_order(points) ==
    IF food_of(points) = {} THEN 0 ELSE mst_of_list(points)

\* MSTHeuristic.compute with list(state.remaining_food) in the order of points
MSTHeuristic_in_order(points) ==
    IF food_of(points) = {} THEN 0
    ELSE MSTHeuristic_of_list(Append(Tail(points), Head(points)))

InitMst ==
    /\ SearchIdleButResult
    /\ variant = None /\ maze = None /\ st = None /\ compared = {}
    /\ \E p \in MstCells : point_list = <<p>>
    /\ result = <<mst_heuristic_in_order(point_list), MSTHeuristic_in_order(point_list)>>

MstAddFood ==
    /\ Len(point_list) - 1 < MaxMstFood
    /\ \E c \in MstCells \ ({Head(point_list)} \cup food_of(point_list)) :
          /\ point_list' = Append(point_list, c)
          /\ result' = <<mst_heuristic_in_order(Append(point_list, c)),
                         MSTHeuristic_in_order(Append(point_list, c))>>
    /\ UNCHANGED <<variant, maze, st, compared, heuristic, admissible, frontier, count,
                   explored, g_values, states_explored, max_frontier_size, pc>>

NextMst == MstAddFood

SpecMst == InitMst /\ [][NextMst]_vars

(***************************************************************************)
(* PriorityQueue (both variants): a heap of (priority, count, item).       *)
(***************************************************************************)
\* a pop that takes the entry pushed last among those of least priority
heap_min_lifo(heap) ==
    CHOOSE e \in heap : \A f \in heap : e[1] < f[1] \/ (e[1] = f[1] /\ e[2] >= f[2])

\* the entry heapq.heappop removes: the least (priority, count)
heap_min(heap) ==
    CHOOSE e \in heap : \A f \in heap : e[1] < f[1] \/ (e[1] = f[1] /\ e[2] <= f[2])

\* PriorityQueue.push on the pair <<heap, count>>
push(q, item, priority) == <<q[1] \cup {<<priority, q[2], item>>}, q[2] + 1>>

\* PriorityQueue.pop on the heap: <<the item returned, the heap left>>
pop(heap) == <<heap_min(heap)[3], heap \ {heap_min(heap)}>>

\* PriorityQueue.is_empty
is_empty(heap) == heap = {}

(***************************************************************************)
(* A PriorityQueue used on its own: any items with any priorities are      *)
(* pushed and popped in any order; result is the item the last pop         *)
(* returned.                                                               *)
(***************************************************************************)
Items == {"a", "b"}

InitQueue ==
    /\ SearchIdle
    /\ variant = None /\ maze = None /\ st = None /\ compared = {} /\ point_list = <<>>

QueuePush ==
    /\ count < MaxPushes
    /\ \E item \in Items, priority \in 0..MaxPriority :
          /\ frontier' = push(<<frontier, count>>, item, priority)[1]
          /\ count' = push(<<frontier, count>>, item, priority)[2]
    /\ UNCHANGED <<point_list, variant, maze, st, compared, heuristic, admissible, explored,
                   g_values, states_explored, max_frontier_size, pc, result>>

QueuePop ==
    /\ ~is_empty(frontier)
    /\ result' = pop(frontier)[1]
    /\ frontier' = pop(frontier)[2]
    /\ UNCHANGED <<point_list, variant, maze, st, compared, heuristic, admissible, count,
                   explored, g_values, states_explored, max_frontier_size, pc>>

NextQueue == QueuePush \/ QueuePop

SpecQueue == InitQueue /\ [][NextQueue]_vars

\* a return ends the call: its locals frontier, explored and g_values are gone
Released == frontier' = {} /\ count' = 0 /\ explored' = {} /\ g_values' = <<>>

(***************************************************************************)
(* The Maze methods as functions: a maze is loaded from any small grid of  *)
(* open cells, walls and moving walls, and a method is called on one of    *)
(* its cells; result holds <<method, arguments, value returned>>.          *)
(***************************************************************************)
Grids ==
    UNION {UNION {{[width |-> w, height |-> h, walls |-> kind[1], moving_walls |-> kind[2],
                    teleport_pads |-> <<>>, pies |-> {}] :
                      kind \in {k \in (SUBSET ((0..(w - 1)) \X (0..(h - 1)))) \X
                                        (SUBSET ((0..(w - 1)) \X (0..(h - 1)))) :
                                    k[1] \cap k[2] = {}}} :
                  h \in {n \in 1..MaxSide : w * n <= MaxGridCells}} :
           w \in 1..MaxSide}

InitMaze ==
    /\ SearchIdle
    /\ st = None /\ compared = {} /\ point_list = <<>>
    /\ \E L \in Grids : \E start \in FreeCells(L) :
          \* load_maze needs two more cells that are not walls, for the ghosts
          \/ /\ Cardinality(FreeCells(L)) >= 3
             /\ variant = "ext" /\ maze = ExtMaze(L, start, {})
          \/ variant = "base" /\ maze = BaseMaze(L, start, {})

MazeIdle ==
    UNCHANGED <<point_list, variant, maze, st, compared, heuristic, admissible, frontier, count,
                explored, g_values, states_explored, max_frontier_size, pc>>

CallGetOppositeCorner ==
    /\ variant = "ext"
    /\ \E x \in 0..(maze.width - 1), y \in 0..(maze.height - 1) :
          result' = <<"get_opposite_corner", <<x, y>>, get_opposite_corner(maze, x, y)>>
    /\ MazeIdle

CallGetValidMoves ==
    /\ variant = "ext"
    /\ \E x \in 0..(maze.width - 1), y \in 0..(maze.height - 1),
          walls_vanished \in BOOLEAN, moving_walls_active \in BOOLEAN :
          result' = <<"get_valid_moves", <<x, y, walls_vanished, moving_walls_active>>,
                      get_valid_moves(maze, x, y, walls_vanished, moving_walls_active)>>
    /\ MazeIdle

CallGetTeleportDestination ==
    /\ variant = "base"
    /\ \E x \in 0..(maze.width - 1), y \in 0..(maze.height - 1) :
          result' = <<"get_teleport_destination", <<x, y>>,
                      get_teleport_destination(maze, x, y)>>
    /\ MazeIdle

NextMaze == CallGetOppositeCorner \/ CallGetValidMoves \/ CallGetTeleportDestination

SpecMaze == InitMaze /\ [][NextMaze]_vars

(***************************************************************************)
(* Extended variant: a_star_search (src/pacman_ai/src/search.py 67-129)    *)
(***************************************************************************)
\* a successor list whose states do not record the action that made them
successor_list_unrecorded(s, m) ==
    LET mvs == surviving_moves(s, m)
    IN  [i \in 1..Len(mvs) |->
            [new_state(s, m, mvs[i], s.ghost_positions) EXCEPT !.actions = s.actions]]

\* the successor list of a state without ghosts, in the order it is built
successor_list(s, m) ==
    LET mvs == surviving_moves(s, m)
    IN  [i \in 1..Len(mvs) |-> new_state(s, m, mvs[i], s.ghost_positions)]

\* dict.get(key, float('inf'))
g_get(g, key) == IF key \in DOMAIN g THEN g[key] ELSE Inf

\* a loop over the successors that never pushes an explored state again
RECURSIVE relax_closed(_, _, _, _)
relax_closed(succs, i, expl, acc) ==
    IF i > Len(succs) THEN acc
    ELSE LET successor == succs[i]
             key == state_hash(successor)
             g_value == successor.cost
         IN  IF key \in expl
             THEN relax_closed(succs, i + 1, expl, acc)
             ELSE IF key \notin DOMAIN acc.g \/ g_value < acc.g[key]
                  THEN LET h_value == heuristic_func(heuristic, successor.position,
                                                     successor.remaining_food)
                           q == push(acc.q, successor, g_value + h_value)
                       IN  relax_closed(succs, i + 1, expl,
                                        [g |-> (key :> g_value) @@ acc.g,
                                         q |-> q,
                                         mfs |-> Max({acc.mfs, Cardinality(q[1])})])
                  ELSE relax_closed(succs, i + 1, expl, acc)

\* the for loop over the successors; acc carries g_values, the queue and
\* max_frontier_size
RECURSIVE relax(_, _, _, _)
relax(succs, i, expl, acc) ==
    IF i > Len(succs) THEN acc
    ELSE LET successor == succs[i]
             key == state_hash(successor)
             g_value == successor.cost
         IN  IF key \in expl /\ g_value >= g_get(acc.g, key)
             THEN relax(succs, i + 1, expl, acc)
             ELSE IF key \notin DOMAIN acc.g \/ g_value < acc.g[key]
                  THEN LET h_value == heuristic_func(heuristic, successor.position,
                                                     successor.remaining_food)
                           q == push(acc.q, successor, g_value + h_value)
                       IN  relax(succs, i + 1, expl,
                                 [g |-> (key :> g_value) @@ acc.g,
                                  q |-> q,
                                  mfs |-> Max({acc.mfs, Cardinality(q[1])})])
                  ELSE relax(succs, i + 1, expl, acc)

\* lines 79-90: the initial state is pushed with priority 0
ExtSearchInit(m, h) ==
    /\ heuristic = h
    /\ frontier = {<<0, 0, ExtInitialState(m)>>}
    /\ count = 1
    /\ explored = {}
    /\ g_values = (state_hash(ExtInitialState(m)) :> 0)
    /\ states_explored = 0
    /\ max_frontier_size = 0
    /\ pc = "loop"
    /\ result = None

\* one iteration of the while loop that pops a goal state and returns
ExtGoal ==
    /\ variant = "ext" /\ pc = "loop" /\ frontier # {}
    /\ LET current_state == heap_min(frontier)[3]
       IN  /\ is_goal(current_state)
           /\ states_explored' = states_explored + 1
           /\ result' = [actions |-> current_state.actions, cost |-> current_state.cost]
           /\ pc' = "done"
    /\ Released
    /\ UNCHANGED <<point_list, variant, maze, st, compared, heuristic, admissible, max_frontier_size>>

\* one iteration of the while loop that pops and expands a state
ExtExpand ==
    /\ variant = "ext" /\ pc = "loop" /\ frontier # {}
    /\ LET current_state == heap_min(frontier)[3]
           expl == explored \cup {state_hash(current_state)}
           acc == relax(successor_list(current_state, maze), 1, expl,
                        [g |-> g_values,
                         q |-> <<frontier \ {heap_min(frontier)}, count>>,
                         mfs |-> max_frontier_size])
       IN  /\ ~is_goal(current_state)
           /\ states_explored' = states_explored + 1
           /\ explored' = expl
           /\ g_values' = acc.g
           /\ frontier' = acc.q[1]
           /\ count' = acc.q[2]
           /\ max_frontier_size' = acc.mfs
    /\ UNCHANGED <<point_list, variant, maze, st, compared, heuristic, admissible, pc, result>>

\* a failure that returns an empty action list
failure_result_empty == [actions |-> <<>>, cost |-> 0]

\* line 129: return None, 0
failure_result == [actions |-> None, cost |-> 0]

\* the while loop ends on an empty frontier: return None, 0
ExtExhausted ==
    /\ variant = "ext" /\ pc = "loop" /\ frontier = {}
    /\ result' = failure_result
    /\ pc' = "done"
    /\ Released
    /\ UNCHANGED <<point_list, variant, maze, st, compared, heuristic, admissible, states_explored,
                   max_frontier_size>>

(***************************************************************************)
(* Base variant: AStarSearch.search (src/search.py 48-108)                 *)
(***************************************************************************)
\* an f_score that forgets the cost already paid (greedy best-first)
f_score_greedy(tentative_g_score, h_score) == h_score

\* line 100: f_score = tentative_g_score + h_score
f_score(tentative_g_score, h_score) == tentative_g_score + h_score

RECURSIVE base_relax(_, _, _, _, _)
base_relax(succs, i, current_state, expl, acc) ==
    IF i > Len(succs) THEN acc
    ELSE LET next_state == succs[i][1]
             cost == succs[i][3]
             key == base_state_hash(next_state)
             tentative_g_score == current_state.path_cost + cost
         IN  IF key \in expl
             THEN base_relax(succs, i + 1, current_state, expl, acc)
             ELSE IF key \in DOMAIN acc.g /\ tentative_g_score >= acc.g[key]
                  THEN base_relax(succs, i + 1, current_state, expl, acc)
                  ELSE LET h_score == base_heuristic(heuristic, next_state)
                       IN  base_relax(succs, i + 1, current_state, expl,
                                      [g |-> (key :> tentative_g_score) @@ acc.g,
                                       q |-> push(acc.q, next_state,
                                                  f_score(tentative_g_score, h_score))])

\* lines 58-70: the start state is pushed with f = 0 + h
BaseSearchInit(m, h) ==
    /\ heuristic = h
    /\ frontier = {<<0 + base_heuristic(h, BaseInitialState(m)), 0, BaseInitialState(m)>>}
    /\ count = 1
    /\ explored = {}
    /\ g_values = (base_state_hash(BaseInitialState(m)) :> 0)
    /\ states_explored = 0
    /\ max_frontier_size = 0
    /\ pc = "loop"
    /\ result = None

BaseGoal ==
    /\ variant = "base" /\ pc = "loop" /\ frontier # {}
    /\ LET current_state == heap_min(frontier)[3]
       IN  /\ is_goal_state(current_state)
           /\ states_explored' = states_explored + 1
           /\ result' = [path |-> <<current_state>>,
                         actions |-> current_state.path,
                         cost |-> current_state.path_cost]
           /\ pc' = "done"
    /\ Released
    /\ UNCHANGED <<point_list, variant, maze, st, compared, heuristic, admissible, max_frontier_size>>

BaseExpand ==
    /\ variant = "base" /\ pc = "loop" /\ frontier # {}
    /\ LET current_state == heap_min(frontier)[3]
           expl == explored \cup {base_state_hash(current_state)}
           acc == base_relax(get_successors(current_state, maze), 1, current_state, expl,
                             [g |-> g_values,
                              q |-> <<frontier \ {heap_min(frontier)}, count>>])
       IN  /\ ~is_goal_state(current_state)
           /\ states_explored' = states_explored + 1
           /\ explored' = expl
           /\ g_values' = acc.g
           /\ frontier' = acc.q[1]
           /\ count' = acc.q[2]
    /\ UNCHANGED <<point_list, variant, maze, st, compared, heuristic, admissible, max_frontier_size, pc, result>>

BaseExhausted ==
    /\ variant = "base" /\ pc = "loop" /\ frontier = {}
    /\ result' = [path |-> None, actions |-> None, cost |-> Inf]
    /\ pc' = "done"
    /\ Released
    /\ UNCHANGED <<point_list, variant, maze, st, compared, heuristic, admissible, states_explored,
                   max_frontier_size>>

(***************************************************************************)
(* Brute force on a maze without pies: once the search has returned, st    *)
(* enumerates every state and cost an action sequence leads to (the        *)
(* sequence itself is not kept).  Costs never decrease along a sequence,   *)
(* so a sequence cheaper than the returned cost is found among the         *)
(* sequences that cost no more than it; when no plan was returned the      *)
(* enumeration goes to MaxWalkCost.                                        *)
(***************************************************************************)
WalkCost == IF result.actions = None THEN MaxWalkCost ELSE Min({MaxWalkCost, result.cost})

BruteExt ==
    /\ variant = "ext" /\ pc = "done" /\ maze.magical_pies = {}
    /\ \E t \in get_successor_states(st, maze) :
          /\ t.cost <= WalkCost
          /\ st' = [t EXCEPT !.actions = <<>>]
    /\ UNCHANGED <<point_list, variant, maze, compared>>
    /\ UNCHANGED search_vars

BruteBase ==
    /\ variant = "base" /\ pc = "done" /\ maze.magical_pie_positions = {}
    /\ \E i \in 1..Len(get_successors(st, maze)) :
          /\ get_successors(st, maze)[i][1].path_cost <= WalkCost
          /\ st' = [get_successors(st, maze)[i][1] EXCEPT !.path = <<>>]
    /\ UNCHANGED <<point_list, variant, maze, compared>>
    /\ UNCHANGED search_vars


(***************************************************************************)
(* The true cost to a goal, for the admissibility of a heuristic on a maze *)
(* without pies.  A state is taken without its action list; of its cost    *)
(* only what the successors read is kept: whether it is a positive         *)
(* multiple of 10 (and nothing where no wall moves, or in the base         *)
(* variant).                                                               *)
(***************************************************************************)
ext_strip(m, t) ==
    [t EXCEPT !.actions = <<>>,
              !.cost = IF m.moving_walls = {} \/ @ = 0 THEN 0 ELSE ((@ - 1) % 10) + 1]

base_strip(t) == [t EXCEPT !.path = <<>>, !.path_cost = 0]

\* the pairs <<successor, step cost>> of a state
edges(v, m, s) ==
    IF v = "ext"
    THEN {<<ext_strip(m, t), t.cost - s.cost>> : t \in get_successor_states(s, m)}
    ELSE {<<base_strip(get_successors(s, m)[i][1]), get_successors(s, m)[i][3]>> :
             i \in 1..Len(get_successors(s, m))}

RECURSIVE closure(_, _, _, _)
closure(v, m, S, F) ==
    IF F = {} THEN S
    ELSE LET N == {e[1] : e \in UNION {edges(v, m, f) : f \in F}} \ S
         IN  closure(v, m, S \cup N, N)

goal(v, s) == IF v = "ext" THEN is_goal(s) ELSE is_goal_state(s)

hval(v, name, s) ==
    IF v = "ext" THEN heuristic_func(name, s.position, s.remaining_food)
    ELSE base_heuristic(name, s)

\* the states of R outside D with a step of cost c into D
pred(v, m, R, D, c) == {s \in R \ D : \E e \in edges(v, m, s) : e[2] = c /\ e[1] \in D}

RECURSIVE zero_closure(_, _, _, _)
zero_closure(v, m, R, D) ==
    IF pred(v, m, R, D, 0) = {} THEN D
    ELSE zero_closure(v, m, R, D \cup pred(v, m, R, D, 0))

\* D holds the states whose true cost to a goal is <= k
RECURSIVE below(_, _, _, _, _, _)
below(v, m, name, R, D, k) ==
    LET N == zero_closure(v, m, R, D \cup pred(v, m, R, D, 1)) \ D
    IN  IF N = {} THEN TRUE
        ELSE /\ \A s \in N : hval(v, name, s) <= k + 1
             /\ below(v, m, name, R, D \cup N, k + 1)

\* h(s) <= true cost to a goal, for every state s reachable from the initial one
is_admissible(v, m, name, initial) ==
    LET R == closure(v, m, {initial}, {initial})
        D == zero_closure(v, m, R, {s \in R : goal(v, s)})
    IN  /\ \A s \in D : hval(v, name, s) <= 0
        /\ below(v, m, name, R, D, 0)

(***************************************************************************)
(* The search: a_star_search / AStarSearch.search is run on the maze, then *)
(* the brute-force enumeration.                                            *)
(***************************************************************************)
\* the layouts on which a search is compared with the enumeration of all action
\* sequences: the 3x3 room gives way to a 3x2 room
SearchLayouts == (Layouts \ {Room(5, 5)}) \cup {Room(5, 4)}

\* the search is started on a maze of one of the layouts; judged says whether
\* the admissibility of the heuristic on it is worked out as well
SearchStart(layouts, judged) ==
    /\ compared = {} /\ point_list = <<>>
    /\ \E L \in layouts : \E start \in FreeCells(L) : \E food \in FoodChoices(L, start) :
        \/ /\ variant = "ext"
           /\ maze = ExtMaze(L, start, food)
           /\ st = ExtInitialState(ExtMaze(L, start, food))
           /\ \E h \in {"zero", "mst"} :
                 /\ ExtSearchInit(ExtMaze(L, start, food), h)
                 /\ admissible =
                      IF L.pies # {} \/ ~judged THEN None
                      ELSE h = "zero" \/ is_admissible("ext", ExtMaze(L, start, food), h,
                                                       ExtInitialState(ExtMaze(L, start, food)))
        \/ /\ variant = "base"
           /\ maze = BaseMaze(L, start, food)
           /\ st = BaseInitialState(BaseMaze(L, start, food))
           /\ \E h \in {"null", "nearest", "mst"} :
                 /\ BaseSearchInit(BaseMaze(L, start, food), h)
                 /\ admissible =
                      IF L.pies # {} \/ ~judged THEN None
                      ELSE is_admissible("base", BaseMaze(L, start, food), h,
                                         BaseInitialState(BaseMaze(L, start, food)))

InitSearch == SearchStart(SearchLayouts, TRUE)

NextSearch ==
    \/ ExtGoal \/ ExtExpand \/ ExtExhausted \/ BruteExt
    \/ BaseGoal \/ BaseExpand \/ BaseExhausted \/ BruteBase

SpecSearch == InitSearch /\ [][NextSearch]_vars

(***************************************************************************)
(* The search alone.  Its loop is sequential code that waits for nothing,  *)
(* so an iteration that can run does run: weak fairness on the iteration.  *)
(***************************************************************************)
InitAStar == SearchStart(Layouts, FALSE)

NextAStar ==
    \/ ExtGoal \/ ExtExpand \/ ExtExhausted
    \/ BaseGoal \/ BaseExpand \/ BaseExhausted

\* what one pass through the while loop does to the program counter and to
\* the pop counter: every step of NextAStar is such a step
Iterate ==
    /\ pc = "loop"
    /\ \/ pc' = "done" /\ states_explored' \in {states_explored, states_explored + 1}
       \/ pc' = "loop" /\ states_explored' = states_explored + 1

SpecAStar == InitAStar /\ [][NextAStar]_vars /\ WF_<<pc, states_explored>>(Iterate)

(***************************************************************************)
(* The states of the extended variant that get_successor_states reaches    *)
(* from the initial state.  A state is taken without its action list; of   *)
(* its cost what the successors read is kept (whether it is a positive     *)
(* multiple of 10).                                                        *)
(***************************************************************************)
cost_class(t) ==
    [t EXCEPT !.actions = <<>>, !.cost = IF @ = 0 THEN 0 ELSE ((@ - 1) % 10) + 1]

RECURSIVE reach(_, _, _)
reach(m, S, F) ==
    IF F = {} THEN S
    ELSE LET N == {cost_class(t) : t \in UNION {get_successor_states(f, m) : f \in F}} \ S
         IN  reach(m, S \cup N, N)

reachable_states(m) == reach(m, {ExtInitialState(m)}, {ExtInitialState(m)})

\* the distinct identities (__eq__ / __hash__) among the reachable states
reachable_identities(m) == {state_hash(s) : s \in reachable_states(m)}

(***************************************************************************)
(* States with ghosts.  The constructor keeps the list it is given         *)
(* (self.ghost_positions = ghost_positions or []), and a successor is      *)
(* given the receiver's own list on Stop and when move_ghosts skips the    *)
(* move in slow motion; removing an eaten ghost pops from that list, so    *)
(* the loop of get_successor_states is followed one iteration at a time    *)
(* with the receiver and the successors built so far.                      *)
(***************************************************************************)
MaxGhosts == 2
MaxGhostActions == 2
MaxTimer == 2

\* the list a successor is constructed with: the receiver's own list object
\* (shared) or a new one; an empty list is replaced by a new [] in __init__
ghost_lists(s, m, action) ==
    LET own == {[shared |-> s.ghost_positions # <<>>, list |-> s.ghost_positions]}
        new == {[shared |-> FALSE, list |-> g] : g \in moved_ghosts(s, m)}
    IN  IF action = "Stop" THEN own
        ELSE IF is_slow_motion_active(s) THEN new \cup own
        ELSE new

\* a value stored in every object that refers to the receiver's list
pop_shared(acc, list) ==
    [k \in 1..Len(acc) |->
        IF acc[k].shared THEN [acc[k] EXCEPT !.state.ghost_positions = list] ELSE acc[k]]

\* every run of the loop of get_successor_states from iteration i on: s is the
\* receiver as it is now, acc the successors appended so far, each with the
\* list it was given, the state it was when appended and the state it is now
RECURSIVE successor_runs(_, _, _, _, _)
successor_runs(s, m, mvs, i, acc) ==
    IF i > Len(mvs)
    THEN {[receiver |-> s,
           successors |-> [k \in 1..Len(acc) |-> acc[k].state],
           built |-> [k \in 1..Len(acc) |-> acc[k].built],
           given |-> [k \in 1..Len(acc) |-> acc[k].given]]}
    ELSE UNION {
           LET n == new_state(s, m, mvs[i], gl.list)
               popped == gl.shared /\ n.ghost_positions # gl.list
               s1 == IF popped THEN [s EXCEPT !.ghost_positions = n.ghost_positions] ELSE s
               acc1 == IF popped THEN pop_shared(acc, n.ghost_positions) ELSE acc
           IN  successor_runs(s1, m, mvs, i + 1,
                              Append(acc1, [state |-> n, shared |-> gl.shared,
                                            built |-> n, given |-> gl.list]))
           : gl \in ghost_lists(s, m, mvs[i][1])}

\* the layouts the ghosts walk on
GhostLayouts ==
    {L \in Layouts : L.width * L.height <= 12 /\ L.moving_walls = {}
                     /\ L.teleport_pads = <<>>}

\* ghost lists like maze.ghost_starts: distinct cells that are not walls and
\* not Pacman's
GhostStarts(L, start) ==
    {g \in UNION {[1..n -> FreeCells(L) \ {start}] : n \in 1..MaxGhosts} :
        \A i, j \in DOMAIN g : i # j => g[i] # g[j]}

InitGhosts ==
    /\ SearchIdle
    /\ compared = {} /\ point_list = <<>>
    /\ variant = "ext"
    /\ \E L \in GhostLayouts : \E start \in FreeCells(L) :
       \E ghosts \in GhostStarts(L, start) : \E scared, slow \in {0, MaxTimer} :
          /\ maze = ExtMaze(L, start, {})
          /\ st = [ExtInitialState(ExtMaze(L, start, {}))
                     EXCEPT !.ghost_positions = ghosts,
                            !.ghost_scared_steps = scared,
                            !.slow_motion_steps = slow]

GhostIdle ==
    UNCHANGED <<point_list, variant, maze, compared, heuristic, admissible, frontier, count,
                explored, g_values, states_explored, max_frontier_size>>

\* one call st.get_successor_states(maze); result keeps the receiver as it was
\* before the call and what the call returned
CallGetSuccessorStates ==
    /\ pc = "idle"
    /\ Len(st.actions) < MaxGhostActions
    /\ \E run \in successor_runs(st, maze, surviving_moves(st, maze), 1, <<>>) :
          /\ st' = run.receiver
          /\ result' = [receiver |-> st, successors |-> run.successors,
                        built |-> run.built, given |-> run.given]
    /\ pc' = "returned"
    /\ GhostIdle

\* the caller goes on with one of the successors
Advance ==
    /\ pc = "returned"
    /\ \E k \in 1..Len(result.successors) : st' = result.successors[k]
    /\ result' = None
    /\ pc' = "idle"
    /\ GhostIdle

NextGhosts == CallGetSuccessorStates \/ Advance

SpecGhosts == InitGhosts /\ [][NextGhosts]_vars

(***************************************************************************)
(* Properties of the successor walk.                                       *)
(***************************************************************************)
CountNonStop(actions) == Cardinality({i \in 1..Len(actions) : actions[i] # "Stop"})

\* C1: extended variant, no reachable state stands on a wall cell with
\* walls_vanished_steps = 0
C1_TrapAvoidanceExt ==
    variant = "ext" =>
        ~(/\ is_wall(maze, st.position[1], st.position[2], st.moving_walls_active)
          /\ st.walls_vanished_steps = 0)

\* C2: base variant, no reachable state stands on a wall cell with
\* wall_pass_steps = 0
C2_TrapAvoidanceBase ==
    variant = "base" =>
        ~(base_is_wall(maze, st.position[1], st.position[2]) /\ st.wall_pass_steps = 0)

\* C3: base variant, the position of every reachable state is inside the grid
C3_PositionInBoundsBase ==
    variant = "base" =>
        /\ 0 <= st.position[1] /\ st.position[1] < maze.width
        /\ 0 <= st.position[2] /\ st.position[2] < maze.height

\* C4: two states compare equal, and the tuples they hash are equal, exactly
\* when they agree on every attribute other than the action list and the
\* accumulated cost
C4_IdentityIgnoresHistory ==
    \A o \in compared :
        IF variant = "ext"
        THEN LET same == [st EXCEPT !.actions = <<>>, !.cost = 0]
                           = [o EXCEPT !.actions = <<>>, !.cost = 0]
             IN  /\ state_eq(st, o) <=> same
                 /\ (state_hash(st) = state_hash(o)) <=> same
        ELSE LET same == [st EXCEPT !.path = <<>>, !.path_cost = 0]
                           = [o EXCEPT !.path = <<>>, !.path_cost = 0]
             IN  /\ base_state_eq(st, o) <=> same
                 /\ (base_state_hash(st) = base_state_hash(o)) <=> same

\* two states that took different action lists at different costs to the same
\* attributes compare equal
C4_Witness ==
    \E o \in compared :
        /\ variant = "ext"
        /\ st.actions # o.actions /\ st.cost # o.cost /\ st.cost > 0
        /\ Len(st.actions) = MaxEqActions
        /\ state_eq(st, o) /\ state_hash(st) = state_hash(o)

\* C5: extended variant, cost is the number of non-Stop entries of actions
C5_CostCountsMoves ==
    variant = "ext" => st.cost = CountNonStop(st.actions)

C5_Witness ==
    /\ variant = "ext"
    /\ \E i \in 1..Len(st.actions) : st.actions[i] = "Stop"
    /\ st.cost >= 2

\* C6: base variant, Stop is free and leaves wall_pass_steps alone, so that
\* path_cost is the number of non-Stop entries of path
C6_BaseStopIsFree ==
    variant = "base" => st.path_cost = CountNonStop(st.path)

\* C7: extended variant, a successor's walls_vanished_steps is 5 when its final
\* position held a pie of the parent, else the parent's value on Stop, else the
\* parent's value less one and not below 0; the value always lies in 0..5
C7_AbilityCountdown ==
    /\ [][variant = "ext" =>
            st'.walls_vanished_steps =
                IF st'.position \in st.remaining_magical_pies THEN 5
                ELSE IF st'.actions[Len(st'.actions)] = "Stop" THEN st.walls_vanished_steps
                ELSE Max({0, st.walls_vanished_steps - 1})]_vars
    /\ [](variant = "ext" => st.walls_vanished_steps \in 0..5)

C7_Witness ==
    /\ variant = "ext"
    /\ st.walls_vanished_steps = 3
    /\ \E i \in 1..Len(st.actions) : st.actions[i] = "Stop"

\* C8: both variants, a successor's food and pie sets are subsets of the
\* parent's and miss at most the successor's own position
C8_MonotoneCollection ==
    [][/\ variant = "ext" =>
            /\ st'.remaining_food \subseteq st.remaining_food
            /\ st.remaining_food \ st'.remaining_food \subseteq {st'.position}
            /\ st'.remaining_magical_pies \subseteq st.remaining_magical_pies
            /\ st.remaining_magical_pies \ st'.remaining_magical_pies \subseteq {st'.position}
       /\ variant = "base" =>
            /\ st'.remaining_food \subseteq st.remaining_food
            /\ st.remaining_food \ st'.remaining_food \subseteq {st'.position}
            /\ st'.remaining_pies \subseteq st.remaining_pies
            /\ st.remaining_pies \ st'.remaining_pies \subseteq {st'.position}]_vars

C8_Witness ==
    /\ variant = "ext"
    /\ st.remaining_food # maze.food_points
    /\ st.remaining_magical_pies # maze.magical_pies
    /\ st.position \notin maze.food_points \cup maze.magical_pies

(***************************************************************************)
(* Properties of the search.                                               *)
(***************************************************************************)
\* the states reached by taking, action by action, the successor generated for
\* that action: empty when some action has no successor
RECURSIVE replay(_, _, _, _)
replay(v, m, S, actions) ==
    IF actions = <<>> THEN S
    ELSE replay(v, m,
                UNION {IF v = "ext"
                       THEN {t \in get_successor_states(s, m) :
                                t.actions[Len(t.actions)] = Head(actions)}
                       ELSE {get_successors(s, m)[i][1] :
                                i \in {j \in 1..Len(get_successors(s, m)) :
                                          get_successors(s, m)[j][2] = Head(actions)}} :
                       s \in S},
                Tail(actions))

\* C9: extended variant, no pies, admissible heuristic: the returned cost is the
\* least cost of an action sequence that reaches a goal (st is at the end of an
\* arbitrary action sequence of cost st.cost)
C9_ExtSearchOptimal ==
    (variant = "ext" /\ pc = "done" /\ maze.magical_pies = {} /\ admissible = TRUE) =>
        /\ is_goal(st) => (result.actions # None /\ result.cost <= st.cost)
        /\ result.actions # None =>
              LET end == replay("ext", maze, {ExtInitialState(maze)}, result.actions)
              IN  end # {} /\ \A t \in end : is_goal(t) /\ t.cost = result.cost

C11_NearestFoodAdmissible ==
    (variant = "base" /\ pc = "done" /\ is_goal_state(st)) =>
        NearestFoodHeuristic_compute(BaseInitialState(maze)) <= st.path_cost

\* C12: extended variant, mst_heuristic at a state never exceeds the cost of an
\* action sequence from that state to a goal
C12_MstAdmissible ==
    (variant = "ext" /\ pc = "done" /\ is_goal(st)) =>
        mst_heuristic(maze.pacman_start, maze.food_points) <= st.cost

\* C13: base variant, NearestFoodHeuristic is consistent: its value at a
\* reachable state is at most the step cost plus its value at each successor
C13_NearestFoodConsistent ==
    variant = "base" =>
        \A i \in 1..Len(get_successors(st, maze)) :
            NearestFoodHeuristic_compute(st) <=
                get_successors(st, maze)[i][3]
                    + NearestFoodHeuristic_compute(get_successors(st, maze)[i][1])

\* C14: extended variant, mst_heuristic is consistent: its value at a reachable
\* state is at most the step cost plus its value at each successor
C14_MstConsistent ==
    variant = "ext" =>
        \A t \in get_successor_states(st, maze) :
            mst_heuristic(st.position, st.remaining_food) <=
                (t.cost - st.cost) + mst_heuristic(t.position, t.remaining_food)

(***************************************************************************)
(* The weight of a minimum spanning tree, by enumeration of the spanning   *)
(* trees of the complete graph on a point set.                             *)
(***************************************************************************)
RECURSIVE weight(_)
weight(T) ==
    IF T = {} THEN 0
    ELSE LET e == CHOOSE e \in T : TRUE
         IN  manhattan_distance(e[1], e[2]) + weight(T \ {e})

RECURSIVE joined(_, _)
joined(T, S) ==
    LET N == {p \in UNION {{e[1], e[2]} : e \in T} :
                 \E e \in T : (e[1] \in S /\ e[2] = p) \/ (e[2] \in S /\ e[1] = p)} \ S
    IN  IF N = {} THEN S ELSE joined(T, S \cup N)

spanning_trees(P) ==
    {T \in SUBSET {e \in P \X P : cell_before(e[1], e[2])} :
        /\ Cardinality(T) = Cardinality(P) - 1
        /\ joined(T, {CHOOSE p \in P : TRUE}) = P}

minimum_spanning_weight(P) == Min({weight(T) : T \in spanning_trees(P)})

\* C15: both MST heuristics return the weight of a minimum spanning tree of the
\* position and the food cells whatever the order the food is listed in, and 0
\* for no food
C15_MstValue ==
    point_list # <<>> =>
        /\ result[1] = minimum_spanning_weight({Head(point_list)} \cup food_of(point_list))
        /\ result[2] = minimum_spanning_weight({Head(point_list)} \cup food_of(point_list))
        /\ food_of(point_list) = {} => result = <<0, 0>>

\* three food cells, listed in an order other than the sorted one, with a tie
\* between candidate edges
C15_Witness ==
    /\ Len(point_list) = 4
    /\ cell_before(point_list[3], point_list[2])
    /\ manhattan_distance(point_list[1], point_list[2]) = manhattan_distance(point_list[1], point_list[3])
    /\ result[1] = result[2] /\ result[1] >= 4

\* C16: a pop returns the item of an entry of least priority, and among the
\* entries of that priority the one pushed first; every push is given a count
\* above every count in the heap, so two entries never tie on (priority, count)
\* and the comparison never reaches the stored items
C16_QueueOrder ==
    [][/\ frontier' \subseteq frontier =>
            \E e \in frontier :
                /\ frontier' = frontier \ {e}
                /\ result' = e[3]
                /\ \A f \in frontier : e[1] <= f[1]
                /\ \A f \in frontier : f[1] = e[1] => e[2] <= f[2]
       /\ frontier \subseteq frontier' =>
            \E e \in frontier' \ frontier :
                /\ frontier' = frontier \cup {e}
                /\ \A f \in frontier : f[2] < e[2]
       /\ \A e, f \in frontier' : (e[1] = f[1] /\ e[2] = f[2]) => e = f]_vars

\* the first of three pushes has been popped while the two pushed after it, of
\* the least priority there is, are still queued
C16_Witness ==
    /\ variant = None /\ pc = "idle" /\ count = 3 /\ result = "a"
    /\ frontier = {<<0, 1, "b">>, <<0, 2, "b">>}

\* C17: extended variant, a_star_search terminates; when no goal state is
\* reachable from the initial state it returns (None, 0); when the initial
\* state has no food it returns ([], 0) after a single pop; and a search that
\* pops a goal never returns None for its actions
C17_Exhaustion ==
    /\ [](variant = "ext" /\ pc = "done" =>
            /\ (\A s \in reachable_states(maze) : ~is_goal(s)) =>
                   (result.actions = None /\ result.cost = 0)
            /\ maze.food_points = {} =>
                   (result.actions = <<>> /\ result.cost = 0 /\ states_explored = 1))
    /\ [][(variant = "ext" /\ pc = "loop" /\ pc' = "done") =>
             (result'.actions = None <=> frontier = {})]_vars
    /\ ((variant = "ext" /\ pc = "loop") ~> (pc = "done"))

\* a search that has expanded states, found no goal and returned None, 0
C17_Witness ==
    /\ variant = "ext" /\ pc = "done" /\ states_explored > 3
    /\ maze.food_points # {}
    /\ \A s \in reachable_states(maze) : ~is_goal(s)
    /\ result.actions = None /\ result.cost = 0

\* C18: extended variant, 3x3 room inside a wall border, start on a corner cell
\* of the room, one food on the diagonally opposite cell, no pies: the returned
\* cost is the Manhattan distance from start to food and as many actions are
\* returned
C18_ScenarioA ==
    (/\ variant = "ext" /\ pc = "done"
     /\ maze.width = 5 /\ maze.height = 5 /\ maze.walls = Border(5, 5)
     /\ maze.magical_pies = {}
     /\ maze.pacman_start[1] # 2 /\ maze.pacman_start[2] # 2
     /\ maze.food_points = {<<4 - maze.pacman_start[1], 4 - maze.pacman_start[2]>>}) =>
        /\ result.actions # None
        /\ result.cost = manhattan_distance(maze.pacman_start,
                                            <<4 - maze.pacman_start[1], 4 - maze.pacman_start[2]>>)
        /\ Len(result.actions) = result.cost

\* C19: extended variant, no goal state reachable: the search returns None, 0
\* and has popped as many states as there are distinct identities among the
\* states reachable from the initial state
C19_ScenarioB ==
    (/\ variant = "ext" /\ pc = "done"
     /\ \A s \in reachable_states(maze) : ~is_goal(s)) =>
        /\ result.actions = None /\ result.cost = 0
        /\ states_explored = Cardinality(reachable_identities(maze))

\* C20: extended variant, a step by a non-Stop action onto a corner cell d that
\* is not a teleport pad: the successor stands on the opposite corner o, costs
\* one more than its parent, and its food is the parent's without o (food on d
\* stays)
C20_CornerTeleportStep ==
    [][(variant = "ext" /\ st'.actions[Len(st'.actions)] # "Stop") =>
          \A i \in 1..4 :
              LET d == <<st.position[1] + directions[i][2][1],
                         st.position[2] + directions[i][2][2]>>
              IN  (/\ directions[i][1] = st'.actions[Len(st'.actions)]
                   /\ is_corner(maze, d[1], d[2])
                   /\ check_teleport_pad(maze, d[1], d[2]) = None) =>
                      /\ st'.position = get_opposite_corner(maze, d[1], d[2])
                      /\ st'.cost = st.cost + 1
                      /\ st'.remaining_food =
                             st.remaining_food \ {get_opposite_corner(maze, d[1], d[2])}]_vars

\* a move has ended on a corner o whose food is now collected, through the
\* opposite corner d whose food is still there
C20_Witness ==
    /\ variant = "ext" /\ st.actions # <<>>
    /\ st.actions[Len(st.actions)] # "Stop"
    /\ \E d \in st.remaining_food :
          /\ is_corner(maze, d[1], d[2])
          /\ check_teleport_pad(maze, d[1], d[2]) = None
          /\ get_opposite_corner(maze, d[1], d[2]) = st.position
    /\ is_corner(maze, st.position[1], st.position[2])
    /\ st.position \in maze.food_points \ st.remaining_food

\* C21: extended variant, the actions a_star_search returns can be replayed from
\* the initial state through get_successor_states, one successor per action,
\* and end in a goal state (no food left, game not over) of the returned cost;
\* the actions of every frontier entry replay to that entry's state and cost
C21_PlanSound ==
    variant = "ext" =>
        /\ (pc = "done" /\ result.actions # None) =>
              LET end == replay("ext", maze, {ExtInitialState(maze)}, result.actions)
              IN  /\ Cardinality(end) = 1
                  /\ \A t \in end : /\ t.remaining_food = {} /\ ~t.game_over
                                    /\ t.cost = result.cost
        /\ \A e \in frontier :
              replay("ext", maze, {ExtInitialState(maze)}, e[3].actions) = {e[3]}

\* a plan of several actions, a Stop among them, has been returned
C21_Witness ==
    /\ variant = "ext" /\ pc = "done" /\ result.actions # None
    /\ Len(result.actions) >= 3 /\ result.cost < Len(result.actions)
    /\ maze.moving_walls # {}

\* C22: base variant, all four grid corners open: get_teleport_destination maps
\* a corner to the diagonally opposite one, and maps that one back
C22_BaseCornerPairing ==
    (/\ variant = "base" /\ result # None
     /\ Len(maze.corners) = 4
     /\ \E i \in 1..4 : maze.corners[i] = result[2]) =>
        /\ result[3] = <<maze.width - 1 - result[2][1], maze.height - 1 - result[2][2]>>
        /\ get_teleport_destination(maze, result[3][1], result[3][2]) = result[2]

\* C23: extended variant, get_valid_moves on a cell of the grid returns, in the
\* order North, East, South, West, the directions whose destination is in the
\* grid and is open (or any in-grid destination when walls are vanished), then
\* Stop on the cell itself; no destination lies outside the grid
C23_ValidMoves ==
    (variant = "ext" /\ result # None /\ result[1] = "get_valid_moves") =>
        LET x == result[2][1]
            y == result[2][2]
            dest(i) == << <<x, y - 1>>, <<x + 1, y>>, <<x, y + 1>>, <<x - 1, y>> >>[i]
            name(i) == <<"North", "East", "South", "West">>[i]
            kept(i) == /\ dest(i) \in (0..(maze.width - 1)) \X (0..(maze.height - 1))
                       /\ \/ result[2][3]
                          \/ /\ dest(i) \notin maze.walls
                             /\ ~(result[2][4] /\ dest(i) \in maze.moving_walls)
            RECURSIVE expected(_)
            expected(i) == IF i > 4 THEN << <<"Stop", <<x, y>> >> >>
                           ELSE IF kept(i) THEN << <<name(i), dest(i)>> >> \o expected(i + 1)
                           ELSE expected(i + 1)
        IN  /\ result[3] = expected(1)
            /\ \A j \in 1..Len(result[3]) :
                   result[3][j][2] \in (0..(maze.width - 1)) \X (0..(maze.height - 1))

\* a call with vanished walls on a cell at the edge of the grid, next to a wall
C23_Witness ==
    /\ variant = "ext" /\ result # None /\ result[1] = "get_valid_moves"
    /\ result[2][1] = 0 /\ result[2][3]
    /\ <<1, result[2][2]>> \in maze.walls
    /\ Len(result[3]) = 3

\* C26: extended variant, a corner c: get_opposite_corner(c) is an open cell, is
\* a corner itself, is the diagonal counterpart of c in the bounding box of the
\* open cells, and get_opposite_corner maps it back to c
C26_ExtCornerMapping ==
    (/\ variant = "ext" /\ result # None /\ result[1] = "get_opposite_corner"
     /\ is_corner(maze, result[2][1], result[2][2])) =>
        LET open == {p \in (0..(maze.width - 1)) \X (0..(maze.height - 1)) :
                        p \notin maze.walls \cup maze.moving_walls}
            xs == {p[1] : p \in open}
            ys == {p[2] : p \in open}
            o == result[3]
        IN  /\ o \in open
            /\ is_corner(maze, o[1], o[2])
            /\ o = <<Min(xs) + Max(xs) - result[2][1], Min(ys) + Max(ys) - result[2][2]>>
            /\ get_opposite_corner(maze, o[1], o[2]) = result[2]

\* C24: extended variant, one pass of the loop that expands a state: a successor
\* is pushed exactly when its identity has no g_values entry or its cost is
\* below that entry (explored or not); g_values of an identity is then the
\* least cost pushed for it, and never goes up; the priority of a pushed
\* successor is its cost plus its heuristic value
C24_ReopeningGuard ==
    [][(variant = "ext" /\ pc = "loop" /\ pc' = "loop") =>
          LET current_state == heap_min(frontier)[3]
              pushed == frontier' \ frontier
              better(t) == \/ state_hash(t) \notin DOMAIN g_values
                           \/ t.cost < g_values[state_hash(t)]
          IN  /\ frontier' = (frontier \ {heap_min(frontier)}) \cup pushed
              /\ \A e \in pushed :
                    /\ e[3] \in get_successor_states(current_state, maze)
                    /\ better(e[3])
                    /\ e[1] = e[3].cost + heuristic_func(heuristic, e[3].position,
                                                         e[3].remaining_food)
              /\ \A t \in get_successor_states(current_state, maze) :
                    better(t) => \E e \in pushed : /\ state_hash(e[3]) = state_hash(t)
                                                   /\ e[3].cost <= t.cost
              /\ DOMAIN g_values \subseteq DOMAIN g_values'
              /\ \A key \in DOMAIN g_values' :
                    LET costs == {e[3].cost : e \in {f \in pushed : state_hash(f[3]) = key}}
                    IN  IF costs = {} THEN key \in DOMAIN g_values /\ g_values'[key] = g_values[key]
                        ELSE /\ g_values'[key] = Min(costs)
                             /\ key \in DOMAIN g_values => g_values'[key] < g_values[key]]_vars

\* an identity that has been expanded is on the frontier again, at the cost
\* g_values now holds for it
C24_Witness ==
    /\ variant = "ext" /\ pc = "loop"
    /\ \E e \in frontier : /\ state_hash(e[3]) \in explored
                           /\ g_values[state_hash(e[3])] = e[3].cost

\* C25: extended variant, a move offered by get_valid_moves is left without a
\* successor exactly when its destination is a wall and the walls_vanished_steps
\* the successor would carry is 0: max(0, steps - 1) for a move, the unchanged
\* steps for Stop
C25_TrapRule ==
    (variant = "ext" /\ ~st.game_over) =>
        LET valid_moves == get_valid_moves(maze, st.position[1], st.position[2],
                                           are_walls_vanished(st), st.moving_walls_active)
            carried(action) == IF action = "Stop" THEN st.walls_vanished_steps
                               ELSE Max({0, st.walls_vanished_steps - 1})
        IN  \A i \in 1..Len(valid_moves) :
                (\A t \in get_successor_states(st, maze) :
                     t.actions[Len(t.actions)] # valid_moves[i][1])
                <=> (/\ is_wall(maze, valid_moves[i][2][1], valid_moves[i][2][2],
                                st.moving_walls_active)
                     /\ carried(valid_moves[i][1]) = 0)


\* the identities of the successors get_successor_states gives s for one action
successors_by(s, m, action) ==
    {state_hash(t) : t \in {n \in get_successor_states(s, m) :
                               n.actions[Len(n.actions)] = action}}

\* C29: extended variant, no ghosts: two states that compare equal under __eq__
\* have, for each action, successors that compare equal, whatever the two
\* states' costs and action lists (here the initial state and the state st at
\* the end of an action sequence that leads back to the initial identity)
C29_SuccessorsByIdentity ==
    (variant = "ext" /\ pc = "done" /\ state_eq(st, ExtInitialState(maze))) =>
        \A action \in {"North", "East", "South", "West", "Stop"} :
            successors_by(st, maze, action)
                = successors_by(ExtInitialState(maze), maze, action)


\* C30: extended variant, no ghosts: every successor made by the action Stop
\* compares equal to its parent (same position, collectibles, timers)
C30_StopIsNoOp ==
    variant = "ext" =>
        \A t \in get_successor_states(st, maze) :
            t.actions[Len(t.actions)] = "Stop" => state_eq(t, st)


\* a ghost of the list g stands on the cell p
ghost_on(g, p) == \E i \in 1..Len(g) : g[i] = p

\* C27: extended variant, states with ghosts: a state with game_over = TRUE has
\* no successors and is not a goal, even without food; a successor whose final
\* position is the position of a ghost of the list it was given has game_over =
\* TRUE when its ghost_scared_steps is 0, and otherwise has lost every ghost on
\* that position and keeps game_over = FALSE
C27_DefeatHandling ==
    /\ st.game_over => ~is_goal(st)
    /\ pc = "returned" =>
          /\ result.receiver.game_over => result.successors = <<>>
          /\ \A k \in 1..Len(result.successors) :
                LET t == result.successors[k]
                    g == result.given[k]
                    p == t.position
                IN  IF ghost_on(g, p)
                    THEN IF t.ghost_scared_steps = 0
                         THEN t.game_over
                         ELSE /\ ~t.game_over
                              /\ ~ghost_on(t.ghost_positions, p)
                              /\ result.built[k].ghost_positions
                                    = SelectSeq(g, LAMBDA q : q # p)
                    ELSE ~t.game_over

\* Pacman steps on a pie on which two ghosts have just stepped: the successor
\* is given two ghosts on its position, scared by the pie only, and loses both
C27_Witness ==
    /\ pc = "returned"
    /\ result.receiver.ghost_scared_steps = 0
    /\ \E k \in 1..Len(result.successors) :
          /\ ghost_on(result.given[k], result.successors[k].position)
          /\ ~result.successors[k].game_over
          /\ Len(result.given[k]) = 2
          /\ result.successors[k].ghost_positions = <<>>


\* C28: extended variant: a call of get_successor_states leaves every identity
\* attribute of the receiver as it was, and every successor it returns is as it
\* was when it was built, also when a successor is given the receiver's own
\* ghost list and eats a ghost
C28_ParentImmutable ==
    pc = "returned" =>
        /\ state_eq(st, result.receiver)
        /\ \A k \in 1..Len(result.successors) : result.successors[k] = result.built[k]

============================================================================
